---- MODULE Spec2Model ----
(***************************************************************************)
(* Model of the PGP encoder (models/encoders/pgp_encoder.py) and of the    *)
(* goal conditioned aggregator (models/aggregators/goal_conditioned.py).   *)
(*                                                                         *)
(* Tensors are functions over 0-based index ranges, as in the source.      *)
(* Real numbers are integers (fixed point, divisions round down); exp is   *)
(* a positive power of two, which keeps softmax's zero / non-zero          *)
(* structure and its normalisation.                                        *)
(***************************************************************************)
EXTENDS Integers, Sequences, FiniteSets, TLC

\* ------------------------------------------------------------------ bounds
BatchSize == 1
MaxNodes == 2
MaxEdges == 2
MaxWrites == 2
MaxPoses == 2
HiddenSize == 2
NumSamples == 2
MaxVehicles == 1
MaxPeds == 1
NumGatLayers == 1

Batches == 0 .. (BatchSize - 1)
Nodes == 0 .. (MaxNodes - 1)
EdgeSlots == 0 .. (MaxEdges - 1)
\* Edge types of the lane graph: 0 is the "no edge" sentinel.
EdgeTypes == {0, 1}
\* Destinations a table may hold: node indices, and one value past them (the value
\* a placeholder or the reserved last slot may carry).
DestVals == 0 .. MaxNodes

VARIABLES
    pc,          \* "input": the caller is filling the input; "done": the call returned
    writes,      \* number of input entries the caller has set
    s_next,      \* inputs['map_representation']['s_next'], the tensor object itself
    edge_type,   \* inputs['map_representation']['edge_type']
    arg_s_next,  \* contents of s_next at the moment of the call
    adj_mat,     \* value returned by build_adj_mat
    feat_embedding, \* [batch][entity][time] embedded features (one number per step)
    masks,       \* [batch][entity][time] masks[:, :, :, 0]: 1 = padded, 0 = valid
    encoding,    \* value returned by variable_size_gru_encode
    gru_calls,   \* number of calls of the recurrent summarizer made by the call
    encodings,   \* the encodings dictionary handed to the aggregator
    pre_train,   \* GoalConditioned.pre_train (args['pre_train'])
    training,    \* nn.Module.training of the aggregator
    goals,       \* goals computed by GoalConditioned.forward
    rng_draws,   \* number of Categorical(...).sample() calls made
    outputs,     \* the outputs dictionary returned by GoalConditioned.forward
    error,       \* the exception that ended the forward pass, "" if none
    inputs,      \* the inputs dictionary of PGPEncoder.forward (but the edge tables)
    att_weights  \* agent-node attention weights computed by PGPEncoder.forward

vars == <<pc, writes, s_next, edge_type, arg_s_next, adj_mat,
          feat_embedding, masks, encoding, gru_calls,
          encodings, pre_train, training, goals, rng_draws, outputs, error,
          inputs, att_weights>>
aggVars == <<encodings, pre_train, training, goals, rng_draws, outputs, error>>
encVars == <<inputs, att_weights>>
adjVars == <<s_next, edge_type, arg_s_next, adj_mat>>
gruVars == <<feat_embedding, masks, encoding, gru_calls>>

\* ------------------------------------------------------------ build_adj_mat
ZeroTable == [b \in Batches |-> [i \in Nodes |-> [k \in EdgeSlots |-> 0]]]
NoAdj == [b \in Batches |-> [i \in Nodes |-> [j \in Nodes |-> FALSE]]]

\* torch.diag(torch.ones(max_nodes)).unsqueeze(0).repeat(batch_size, 1, 1).bool()
Identity == [b \in Batches |-> [i \in Nodes |-> [j \in Nodes |-> i = j]]]

\* dummy_vals: arange(max_nodes) repeated over the batch and the edge slots
dummy_vals == [b \in Batches |-> [i \in Nodes |-> [k \in EdgeSlots |-> i]]]

\* s_next[edge_type == 0] = dummy_vals[edge_type == 0]   (in place)
DummyCorrectedSkipped(sn, et) == sn

DummyCorrected(sn, et) ==
    [b \in Batches |-> [i \in Nodes |-> [k \in EdgeSlots |->
        IF et[b][i][k] = 0 THEN dummy_vals[b][i][k] ELSE sn[b][i][k]]]]

\* adj_mat[batch_indices[:, :, :-1], src_indices[:, :, :-1], s_next[:, :, :-1]] = True
MarkEdges(adj, sn) ==
    [b \in Batches |-> [i \in Nodes |-> [j \in Nodes |->
        adj[b][i][j] \/ (\E k \in 0 .. (MaxEdges - 2) : sn[b][i][k] = j)]]]

\* adj_mat | torch.transpose(adj_mat, 1, 2)
SymmetrizeNoTranspose(adj) == adj

Symmetrize(adj) ==
    [b \in Batches |-> [i \in Nodes |-> [j \in Nodes |-> adj[b][i][j] \/ adj[b][j][i]]]]

\* The whole function: the returned matrix and the contents s_next is left with.
build_adj_mat(sn, et) ==
    LET corrected == DummyCorrected(sn, et)
    IN  [adj_mat |-> Symmetrize(MarkEdges(Identity, corrected)),
         s_next |-> corrected]

\* ------------------------------------------------- variable_size_gru_encode
Poses == 0 .. (MaxPoses - 1)
Hidden == 0 .. (HiddenSize - 1)

\* nn.GRU(..., batch_first=True): the recurrent summarizer and its hidden size
node_encoder == [hidden_size |-> HiddenSize]

\* One step of the recurrent cell on hidden state h and input x. The cell is a
\* learned function; this one keeps apart every two input prefixes and never
\* yields the zero vector after a step.
GruCell(gru, h, x) == [c \in 0 .. (gru.hidden_size - 1) |-> 4 * h[c] + x + 1 + c]

RECURSIVE GruRun(_, _, _, _)
\* Hidden state after the first len steps of seq (a sequence, 1-based).
GruRun(gru, seq, len, h) ==
    IF len = 0 THEN h
    ELSE GruCell(gru, GruRun(gru, seq, len - 1, h), seq[len])

\* _, h_n = gru(packed): the final hidden state of one sequence of true length len
GruFinal(gru, seq, len) ==
    GruRun(gru, seq, len, [c \in 0 .. (gru.hidden_size - 1) |-> 0])

\* Row-major order of a [batch][entity] grid: position p (1-based) -> <<b, n>>
GridAt(m, p) ==
    LET ne == Cardinality(DOMAIN m[0])
    IN  <<(p - 1) \div ne, (p - 1) % ne>>

GridSize(m) == Cardinality(DOMAIN m) * Cardinality(DOMAIN m[0])

\* masks_for_batching = (~masks[:, :, :, 0].bool()).any(dim=-1)
masks_for_batching(m) ==
    [b \in DOMAIN m |-> [n \in DOMAIN m[b] |-> \E t \in DOMAIN m[b][n] : m[b][n][t] = 0]]

RECURSIVE SumOver(_, _)
SumOver(f, S) ==
    IF S = {} THEN 0
    ELSE LET x == CHOOSE y \in S : TRUE IN f[x] + SumOver(f, S \ {x})

\* seq_lens = torch.sum(1 - masks[:, :, :, 0], dim=-1)
seq_lens(m) ==
    [b \in DOMAIN m |-> [n \in DOMAIN m[b] |->
        SumOver([t \in DOMAIN m[b][n] |-> 1 - m[b][n][t]], DOMAIN m[b][n])]]

IsNonZero(x) == x /= 0

\* seq_lens_batched = seq_lens[seq_lens != 0]: the non-zero lengths in row-major order
seq_lens_batched(m) ==
    LET sl == seq_lens(m)
    IN  SelectSeq([p \in 1 .. GridSize(m) |-> sl[GridAt(m, p)[1]][GridAt(m, p)[2]]],
                  IsNonZero)

IsKept(e) == e.keep

\* torch.masked_select(feat_embedding, masks_for_batching).view(-1, T, F): the
\* selected elements in row-major order, regrouped T at a time
feat_embedding_batched(fe, m) ==
    LET nt == Cardinality(DOMAIN m[0][0])
        mb == masks_for_batching(m)
        elems == [q \in 1 .. (GridSize(m) * nt) |->
                    LET bn == GridAt(m, ((q - 1) \div nt) + 1)
                    IN  [v |-> fe[bn[1]][bn[2]][(q - 1) % nt], keep |-> mb[bn[1]][bn[2]]]]
        flat == SelectSeq(elems, IsKept)
    IN  [k \in 1 .. (Len(flat) \div nt) |->
            [t \in 1 .. nt |-> flat[(k - 1) * nt + t].v]]

\* Number of True entries of the scatter mask before entry (b, n, c), row-major.
ScatterRankReversed(mb, hs, b, n, c) ==
    LET ne == Cardinality(DOMAIN mb[0])
    IN  hs * Cardinality({bn \in (DOMAIN mb) \X (DOMAIN mb[0]) :
                             mb[bn[1]][bn[2]] /\ bn[1] * ne + bn[2] > b * ne + n}) + c

ScatterRank(mb, hs, b, n, c) ==
    LET ne == Cardinality(DOMAIN mb[0])
    IN  hs * Cardinality({bn \in (DOMAIN mb) \X (DOMAIN mb[0]) :
                             mb[bn[1]][bn[2]] /\ bn[1] * ne + bn[2] < b * ne + n}) + c

\* torch.zeros(mask.shape).masked_scatter(mask, source) with
\* mask = masks_for_batching.squeeze(3).repeat(1, 1, hidden)
masked_scatter(mb, hs, source) ==
    [b \in DOMAIN mb |-> [n \in DOMAIN mb[b] |-> [c \in 0 .. (hs - 1) |->
        IF mb[b][n]
        THEN LET r == ScatterRank(mb, hs, b, n, c)
             IN  source[(r \div hs) + 1][r % hs]
        ELSE 0]]]

\* if len(seq_lens_batched) != 0
GruNeededAlways(lens) == TRUE

GruNeeded(lens) == Len(lens) /= 0

\* The whole function: the returned encoding and how often the summarizer ran.
variable_size_gru_encode(fe, m, gru) ==
    LET lens == seq_lens_batched(m)
        batched == feat_embedding_batched(fe, m)
    IN  IF GruNeeded(lens)
        THEN LET encoding_batched ==
                     [k \in 1 .. Len(batched) |-> GruFinal(gru, batched[k], lens[k])]
             IN  [encoding |-> masked_scatter(masks_for_batching(m), gru.hidden_size,
                                              encoding_batched),
                  gru_calls |-> 1]
        ELSE [encoding |-> [b \in DOMAIN fe |-> [n \in DOMAIN fe[b] |->
                               [c \in 0 .. (gru.hidden_size - 1) |-> 0]]],
              gru_calls |-> 0]

\* The caller sets one time step of one entity: its mask bit and its feature.
SetStep(b, n, t, mk, x) ==
    /\ pc = "input"
    /\ writes < MaxWrites
    /\ masks' = [masks EXCEPT ![b][n][t] = mk]
    /\ feat_embedding' = [feat_embedding EXCEPT ![b][n][t] = x]
    /\ writes' = writes + 1
    /\ UNCHANGED <<pc, encoding, gru_calls, adjVars, aggVars, encVars>>

\* encoding = PGPEncoder.variable_size_gru_encode(feat_embedding, masks, gru)
CallGruEncode ==
    /\ pc = "input"
    /\ \E r \in {variable_size_gru_encode(feat_embedding, masks, node_encoder)} :
           /\ encoding' = r.encoding
           /\ gru_calls' = r.gru_calls
    /\ pc' = "done"
    /\ UNCHANGED <<writes, feat_embedding, masks, adjVars, aggVars, encVars>>

InitGruVars(m0) ==
    /\ masks = [b \in Batches |-> [n \in Nodes |-> [t \in Poses |-> m0]]]
    /\ feat_embedding = [b \in Batches |-> [n \in Nodes |-> [t \in Poses |-> 0]]]
    /\ encoding = <<>>
    /\ gru_calls = 0

\* ---------------------------------------------------------- GoalConditioned
Samples == 0 .. (NumSamples - 1)
ZeroVec == [c \in Hidden |-> 0]

\* Not-a-number, the result of softmax over a row of -inf and of anything computed
\* from it. Every arithmetic operator below hands it on.
NaN == 0 - 1000000
IsNaN(x) == x = NaN

\* Sum of the components of a vector, NaN if any component is
VecSum(v) == IF \E c \in DOMAIN v : IsNaN(v[c]) THEN NaN ELSE SumOver(v, DOMAIN v)

\* goal_op(leaky_relu(goal_h2(leaky_relu(goal_h1(enc))))): the score of one row of
\* enc = cat(target_agent_encoding, node_encoding). The header is a learned function.
GoalHead(target_enc, node_enc) ==
    IF IsNaN(VecSum(target_enc)) \/ IsNaN(VecSum(node_enc)) THEN NaN
    ELSE (VecSum(target_enc) + VecSum(node_enc)) % 3

RECURSIVE Pow2(_)
Pow2(n) == IF n <= 0 THEN 1 ELSE 2 * Pow2(n - 1)

\* exp(x) up to a common positive factor
Exp(x) == IF IsNaN(x) THEN NaN ELSE Pow2(x)

\* masks_goal = ~node_masks.unsqueeze(-1).bool()
masks_goal(node_masks) ==
    [b \in DOMAIN node_masks |-> [n \in DOMAIN node_masks[b] |-> node_masks[b][n] = 0]]

\* goal_ops_: the scores of the selected (valid) rows, in row-major order
goal_ops_batched(target_enc, node_enc, node_masks) ==
    LET mg == masks_goal(node_masks)
        rows == SelectSeq([p \in 1 .. GridSize(mg) |->
                              [bn |-> GridAt(mg, p),
                               keep |-> mg[GridAt(mg, p)[1]][GridAt(mg, p)[2]]]],
                          IsKept)
    IN  [k \in 1 .. Len(rows) |->
            [c \in {0} |-> GoalHead(target_enc[rows[k].bn[1]],
                                    node_enc[rows[k].bn[1]][rows[k].bn[2]])]]

\* exp(log_softmax(goal_ops + log(1 - node_masks))) for one example: the weight
\* exp(score) of every node (0 where log(1 - mask) = -inf), their sum, and whether
\* the row is NaN (all weights 0, or a NaN score).
SoftmaxRow(scores, mask_row) ==
    LET w == [n \in DOMAIN scores |->
                 IF mask_row[n] = 1 THEN 0 ELSE Exp(scores[n][0])]
        bad == \E n \in DOMAIN scores : IsNaN(w[n])
        z == IF bad THEN 0 ELSE SumOver(w, DOMAIN scores)
    IN  [num |-> w, den |-> z, nan |-> bad \/ z = 0]

\* GoalConditioned.compute_goal_probs, as probabilities exp(goal_log_probs)
compute_goal_probs(target_enc, node_enc, node_masks) ==
    LET goal_ops == masked_scatter(masks_goal(node_masks), 1,
                                   goal_ops_batched(target_enc, node_enc, node_masks))
    IN  [b \in DOMAIN node_masks |-> SoftmaxRow(goal_ops[b], node_masks[b])]

\* node_encodings[batch_indices, goals]: the indices the gather accepts
InIndexRange(g) == 0 - MaxNodes <= g /\ g < MaxNodes

\* node_encodings[batch_indices, goals]: a negative index counts from the end
GatherIndex(g) == IF g < 0 THEN g + MaxNodes ELSE g

\* if self.pre_train and self.training
PretrainPathFlagOnly(pt, tr) == pt

PretrainPath(pt, tr) == pt /\ tr

\* super(GoalConditioned, self).forward(encodings): one context vector per example
GlobalAttentionForward(enc) == [b \in Batches |-> enc.target_agent_encoding[b]]

\* The outputs dictionary for the chosen goals g
AggOutputs(enc, probs, g) ==
    [agg_encoding |-> [b \in Batches |-> [sm \in Samples |->
                          [context |-> GlobalAttentionForward(enc)[b],
                           goal |-> enc.combined[b][GatherIndex(g[b][sm])]]]],
     goal_probs |-> probs]

NoOutputs == [agg_encoding |-> <<>>, goal_probs |-> <<>>]
NoGoals == <<>>

\* GoalConditioned.forward(encodings)
AggregatorForward ==
    /\ pc = "encoded"
    /\ \E probs \in {compute_goal_probs(encodings.target_agent_encoding,
                                        encodings.combined, encodings.combined_masks)} :
           IF PretrainPath(pre_train, training)
           THEN IF "node_seq_gt" \in encodings.keys
                THEN LET g == [b \in Batches |-> [sm \in Samples |->
                                  encodings.node_seq_gt[b] - MaxNodes]]
                     IN  IF \A b \in Batches, sm \in Samples : InIndexRange(g[b][sm])
                         THEN /\ goals' = g
                              /\ outputs' = AggOutputs(encodings, probs, g)
                              /\ rng_draws' = 0
                              /\ error' = ""
                              /\ pc' = "done"
                         ELSE \* node_encodings[batch_indices, goals] raises
                              /\ error' = "IndexError"
                              /\ pc' = "failed"
                              /\ UNCHANGED <<goals, outputs, rng_draws>>
                ELSE /\ error' = "KeyError"
                     /\ pc' = "failed"
                     /\ UNCHANGED <<goals, outputs, rng_draws>>
           ELSE IF \E b \in Batches : probs[b].nan
                THEN \* Categorical rejects probabilities that are not a distribution
                     /\ error' = "ValueError"
                     /\ pc' = "failed"
                     /\ UNCHANGED <<goals, outputs, rng_draws>>
                ELSE \E g \in [Batches -> [Samples -> Nodes]] :
                        /\ \A b \in Batches, sm \in Samples : probs[b].num[g[b][sm]] > 0
                        /\ goals' = g
                        /\ outputs' = AggOutputs(encodings, probs, g)
                        /\ rng_draws' = 1
                        /\ error' = ""
                        /\ pc' = "done"
    /\ UNCHANGED <<writes, encodings, pre_train, training, adjVars, gruVars, encVars>>

\* Encodings with every node masked out and no optional key
DefaultEncodings ==
    [target_agent_encoding |-> [b \in Batches |-> [c \in Hidden |-> 1]],
     combined |-> [b \in Batches |-> [n \in Nodes |-> [c \in Hidden |-> n + c]]],
     combined_masks |-> [b \in Batches |-> [n \in Nodes |-> 1]],
     keys |-> {},
     node_seq_gt |-> [b \in Batches |-> MaxNodes],
     s_next |-> ZeroTable]

\* The caller sets the validity mask of one node.
SetNodeMask(b, n, mk) ==
    /\ pc = "encoded"
    /\ writes < MaxWrites
    /\ encodings' = [encodings EXCEPT !.combined_masks[b][n] = mk]
    /\ writes' = writes + 1
    /\ UNCHANGED <<pc, pre_train, training, goals, rng_draws, outputs, error,
                   adjVars, gruVars, encVars>>

\* The caller supplies the ground-truth node sequence; g is its last element for
\* example b. The shifted space is node index + max_nodes; the code takes any
\* integer.
SetNodeSeqGt(b, g) ==
    /\ pc = "encoded"
    /\ writes < MaxWrites
    /\ encodings' = [encodings EXCEPT !.keys = @ \cup {"node_seq_gt"},
                                      !.node_seq_gt[b] = g]
    /\ writes' = writes + 1
    /\ UNCHANGED <<pc, pre_train, training, goals, rng_draws, outputs, error,
                   adjVars, gruVars, encVars>>

InitAggVars(pt, tr) ==
    /\ encodings = DefaultEncodings
    /\ pre_train = pt
    /\ training = tr
    /\ goals = NoGoals
    /\ rng_draws = 0
    /\ outputs = NoOutputs
    /\ error = ""

\* --------------------------------------------------------------- PGPEncoder
Vehicles == 0 .. (MaxVehicles - 1)
Peds == 0 .. (MaxPeds - 1)
Nbrs == 0 .. (MaxVehicles + MaxPeds - 1)

Add(x, y) == IF IsNaN(x) \/ IsNaN(y) THEN NaN ELSE x + y

\* nn.LeakyReLU(), negative_slope = 0.01
leaky_relu(x) == IF IsNaN(x) THEN NaN ELSE IF x >= 0 THEN x ELSE x \div 100

\* An nn.Linear with unit weight and bias b, applied to every component of v
Linear(b, v) == [c \in DOMAIN v |-> Add(v[c], b)]

\* torch.cat((a, b), dim) along an axis indexed from 0
Cat(a, b) ==
    LET na == Cardinality(DOMAIN a)
    IN  [j \in 0 .. (na + Cardinality(DOMAIN b) - 1) |->
            IF j < na THEN a[j] ELSE b[j - na]]

\* leaky_relu(emb(feats)) per time step; flag is the appended type column
\* (0 for vehicles, 1 for pedestrians, none for lane nodes)
Embed(feats, flag) ==
    [b \in DOMAIN feats |-> [n \in DOMAIN feats[b] |-> [t \in DOMAIN feats[b][n] |->
        leaky_relu(feats[b][n][t] + flag)]]]

\* self.target_agent_enc, self.nbr_enc: the other two summarizers
target_agent_gru == [hidden_size |-> HiddenSize]
nbr_enc == [hidden_size |-> HiddenSize]

\* Scaled dot product of a projected query and key: learned, finite unless NaN
AttnLogit(q, k) ==
    IF IsNaN(VecSum(q)) \/ IsNaN(VecSum(k)) THEN NaN
    ELSE (VecSum(q) + VecSum(k)) % 2

\* Softmax numerator of one (query, key) pair under attn_mask entry mk: a bool
\* mask fills masked pairs with -inf, a float mask is added to the logit.
AttnWeight(logit, mk, dtype) ==
    IF dtype = "bool" THEN (IF mk = 1 THEN 0 ELSE Exp(logit))
    ELSE Exp(Add(logit, mk))

\* softmax(row) @ vals for one query: NaN when the row has no weight at all, or
\* when a weight or a value is NaN
AttnRow(w, vals) ==
    LET J == DOMAIN w
        bad == \E j \in J : IsNaN(w[j])
        den == IF bad THEN 0 ELSE SumOver(w, J)
    IN  [c \in Hidden |->
            IF bad \/ den = 0 \/ (\E j \in J : IsNaN(vals[j][c])) THEN NaN
            ELSE SumOver([j \in J |-> w[j] * vals[j][c]], J) \div den]

\* attn_masks = torch.cat((agent_node_masks['vehicles'], ['pedestrians']), dim=2)
attn_masks(anm) ==
    [b \in Batches |-> [n \in Nodes |-> Cat(anm.vehicles[b][n], anm.pedestrians[b][n])]]

\* The weights of self.a_n_att(queries, keys, vals, attn_mask=attn_masks)
AgentNodeWeights(lane_enc, nbr_encodings, am, dtype) ==
    [b \in Batches |-> [n \in Nodes |-> [j \in Nbrs |->
        AttnWeight(AttnLogit(Linear(0, lane_enc[b][n]), Linear(0, nbr_encodings[b][j])),
                   am[b][n][j], dtype)]]]

\* leaky_relu(self.mix(torch.cat((lane_node_enc, att_op), dim=2)))
Mix(lane_v, att_v) ==
    [c \in Hidden |-> leaky_relu(Add(Add(lane_v[c], att_v[c]), 1))]

\* GAT.forward for one example: attention restricted by attn_mask = ~adj_mat
GatLayer(enc_b, adj_b) ==
    LET vals == [j \in Nodes |-> Linear(1, enc_b[j])]
    IN  [i \in Nodes |->
            AttnRow([j \in Nodes |->
                        IF adj_b[i][j]
                        THEN Exp(AttnLogit(Linear(0, enc_b[i]), Linear(0, enc_b[j])))
                        ELSE 0],
                    vals)]

\* lane_node_enc += gat_layer(lane_node_enc, adj_mat), for one example
GatResidual(prev, adj_b) ==
    CHOOSE r \in {[i \in Nodes |-> [c \in Hidden |-> Add(prev[i][c], upd[i][c])]] :
                     upd \in {GatLayer(prev, adj_b)}} : TRUE

RECURSIVE GatStack(_, _, _)
\* for gat_layer in self.gat: ...
GatStack(enc_b, adj_b, layers) ==
    IF layers = 0 THEN enc_b
    ELSE CHOOSE r \in {GatResidual(prev, adj_b) :
                          prev \in {GatStack(enc_b, adj_b, layers - 1)}} : TRUE

\* lane_node_masks = (~(~lane_node_masks[:, :, :, 0].bool()).any(dim=2)).float()
combined_masks_all(m) ==
    [b \in DOMAIN m |-> [n \in DOMAIN m[b] |->
        IF \A t \in DOMAIN m[b][n] : m[b][n][t] = 0 THEN 0 ELSE 1]]

combined_masks(m) ==
    [b \in DOMAIN m |-> [n \in DOMAIN m[b] |->
        IF \E t \in DOMAIN m[b][n] : m[b][n][t] = 0 THEN 0 ELSE 1]]

\* _, target_agent_enc = self.target_agent_enc(leaky_relu(self.target_agent_emb(...)))
TargetAgentEnc(inp) ==
    [b \in Batches |->
        GruFinal(target_agent_gru,
                 [t \in 1 .. MaxPoses |->
                     leaky_relu(inp.target_agent_representation[b][t - 1])],
                 MaxPoses)]

\* The encodings dictionary; the optional keys are passed on if 'init_node' is there
Encodings(inp, tgt, refined, sn) ==
    [target_agent_encoding |-> tgt,
     combined |-> refined,
     combined_masks |-> combined_masks(inp.lane_node_masks),
     keys |-> IF "init_node" \in inp.keys
              THEN {"init_node", "node_seq_gt", "s_next", "edge_type"} ELSE {},
     node_seq_gt |-> inp.node_seq_gt,
     s_next |-> IF "init_node" \in inp.keys THEN sn ELSE ZeroTable]

\* encodings["node_seq_gt"] = inputs["node_seq_gt"] raises when the key is missing
PassThroughNeverFails(inp) == FALSE

PassThroughFails(inp) == "init_node" \in inp.keys /\ "node_seq_gt" \notin inp.keys

\* encodings = PGPEncoder.forward(inputs)
EncoderForward ==
    /\ pc = "input"
    /\ \E lane \in {variable_size_gru_encode(Embed(inputs.lane_node_feats, 0),
                                             inputs.lane_node_masks, node_encoder)},
          veh \in {variable_size_gru_encode(Embed(inputs.vehicles, 0),
                                            inputs.vehicle_masks, nbr_enc)},
          ped \in {variable_size_gru_encode(Embed(inputs.pedestrians, 1),
                                            inputs.pedestrian_masks, nbr_enc)},
          adj \in {build_adj_mat(s_next, edge_type)} :
       \E nbr_encodings \in {[b \in Batches |-> Cat(veh.encoding[b], ped.encoding[b])]} :
       \E w \in {AgentNodeWeights(lane.encoding, nbr_encodings,
                                  attn_masks(inputs.agent_node_masks),
                                  inputs.mask_dtype)} :
       \E fused \in {[b \in Batches |-> [n \in Nodes |->
                        Mix(lane.encoding[b][n],
                            AttnRow(w[b][n], [j \in Nbrs |->
                                                 Linear(0, nbr_encodings[b][j])]))]]} :
       \E refined \in {[b \in Batches |->
                          GatStack(fused[b], adj.adj_mat[b], NumGatLayers)]} :
           /\ s_next' = adj.s_next
           /\ adj_mat' = adj.adj_mat
           /\ encoding' = lane.encoding
           /\ gru_calls' = lane.gru_calls + veh.gru_calls + ped.gru_calls
           /\ att_weights' = w
           /\ IF PassThroughFails(inputs)
              THEN /\ pc' = "failed"
                   /\ error' = "KeyError"
                   /\ UNCHANGED encodings
              ELSE /\ pc' = "encoded"
                   /\ error' = ""
                   /\ encodings' = Encodings(inputs, TargetAgentEnc(inputs), refined,
                                             adj.s_next)
    /\ arg_s_next' = s_next
    /\ UNCHANGED <<writes, edge_type, inputs, feat_embedding, masks,
                   pre_train, training, goals, rng_draws, outputs>>

\* The inputs dictionary: every lane node padded, vehicles valid, pedestrians
\* padded, every agent allowed at every node.
DefaultInputs(dtype, keys) ==
    [target_agent_representation |-> [b \in Batches |-> [t \in Poses |-> t + 1]],
     lane_node_feats |-> [b \in Batches |-> [n \in Nodes |-> [t \in Poses |-> (n + t) % 2]]],
     lane_node_masks |-> [b \in Batches |-> [n \in Nodes |-> [t \in Poses |-> 1]]],
     vehicles |-> [b \in Batches |-> [v \in Vehicles |-> [t \in Poses |-> 1]]],
     vehicle_masks |-> [b \in Batches |-> [v \in Vehicles |-> [t \in Poses |-> 0]]],
     pedestrians |-> [b \in Batches |-> [v \in Peds |-> [t \in Poses |-> 0]]],
     pedestrian_masks |-> [b \in Batches |-> [v \in Peds |-> [t \in Poses |-> 1]]],
     agent_node_masks |->
         [vehicles |-> [b \in Batches |-> [n \in Nodes |-> [v \in Vehicles |-> 0]]],
          pedestrians |-> [b \in Batches |-> [n \in Nodes |-> [v \in Peds |-> 0]]]],
     mask_dtype |-> dtype,
     keys |-> keys,
     node_seq_gt |-> [b \in Batches |-> MaxNodes]]

\* The caller marks one pose of one lane node valid.
SetLaneStep(b, n, t) ==
    /\ pc = "input"
    /\ writes < MaxWrites
    /\ inputs' = [inputs EXCEPT !.lane_node_masks[b][n][t] = 0]
    /\ writes' = writes + 1
    /\ UNCHANGED <<pc, att_weights, adjVars, gruVars, aggVars>>

\* The caller marks one vehicle as not near one lane node.
SetVehicleNodeMask(b, n, v) ==
    /\ pc = "input"
    /\ writes < MaxWrites
    /\ inputs' = [inputs EXCEPT !.agent_node_masks.vehicles[b][n][v] = 1]
    /\ writes' = writes + 1
    /\ UNCHANGED <<pc, att_weights, adjVars, gruVars, aggVars>>

\* The caller marks one pedestrian as not near one lane node.
SetPedNodeMask(b, n, v) ==
    /\ pc = "input"
    /\ writes < MaxWrites
    /\ inputs' = [inputs EXCEPT !.agent_node_masks.pedestrians[b][n][v] = 1]
    /\ writes' = writes + 1
    /\ UNCHANGED <<pc, att_weights, adjVars, gruVars, aggVars>>

InitEncVars(dtype, keys) ==
    /\ inputs = DefaultInputs(dtype, keys)
    /\ att_weights = <<>>

\* ------------------------------------------------------------------- inputs
\* A real edge (type /= 0) in a slot that build_adj_mat reads points at a node.
SlotOk(k, d, t) == (t /= 0 /\ k < MaxEdges - 1) => d \in Nodes

\* The caller (dataset) sets one entry of the edge tables.
SetEdge(b, i, k, d, t) ==
    /\ pc = "input"
    /\ writes < MaxWrites
    /\ SlotOk(k, d, t)
    /\ s_next' = [s_next EXCEPT ![b][i][k] = d]
    /\ edge_type' = [edge_type EXCEPT ![b][i][k] = t]
    /\ writes' = writes + 1
    /\ UNCHANGED <<pc, arg_s_next, adj_mat, gruVars, aggVars, encVars>>

\* adj_mat = PGPEncoder.build_adj_mat(s_next, edge_type)
CallBuildAdjMat ==
    /\ pc = "input"
    /\ \E r \in {build_adj_mat(s_next, edge_type)} :
           /\ adj_mat' = r.adj_mat
           /\ s_next' = r.s_next
    /\ arg_s_next' = s_next
    /\ pc' = "done"
    /\ UNCHANGED <<writes, edge_type, gruVars, aggVars, encVars>>

InitAdjVars ==
    /\ s_next = ZeroTable
    /\ edge_type = ZeroTable
    /\ arg_s_next = ZeroTable
    /\ adj_mat = NoAdj

InitAdj ==
    /\ pc = "input"
    /\ writes = 0
    /\ InitAdjVars
    /\ InitGruVars(1)
    /\ InitAggVars(FALSE, FALSE)
    /\ InitEncVars("float", {})

NextAdj ==
    \/ \E b \in Batches, i \in Nodes, k \in EdgeSlots, d \in DestVals, t \in EdgeTypes :
          SetEdge(b, i, k, d, t)
    \/ CallBuildAdjMat

SpecAdj == InitAdj /\ [][NextAdj]_vars

\* C1: the matrix build_adj_mat returns is symmetric and has True on its diagonal.
AdjSymmetricWithSelfLoops ==
    pc = "done" =>
        \A b \in Batches, i \in Nodes, j \in Nodes :
            /\ adj_mat[b][i][j] = adj_mat[b][j][i]
            /\ adj_mat[b][i][i]

\* A call on a table holding a real edge between two different nodes has returned.
AdjWitness ==
    /\ pc = "done"
    /\ \E b \in Batches, i \in Nodes, k \in 0 .. (MaxEdges - 2) :
          /\ edge_type[b][i][k] /= 0
          /\ arg_s_next[b][i][k] /= i

\* C9: the returned matrix is exactly the self-loops plus, in both directions, the
\* real edges (type /= 0) of every slot but the last, read from the caller's table.
AdjExact ==
    pc = "done" =>
        \A b \in Batches, i \in Nodes, j \in Nodes :
            adj_mat[b][i][j] <=>
                \/ i = j
                \/ \E k \in 0 .. (MaxEdges - 2) :
                      \/ edge_type[b][i][k] /= 0 /\ arg_s_next[b][i][k] = j
                      \/ edge_type[b][j][k] /= 0 /\ arg_s_next[b][j][k] = i

\* A call has returned on a table with a no-edge slot holding another node's index
\* and a last slot holding a real edge to another node.
AdjExactWitness ==
    /\ pc = "done"
    /\ \E b \in Batches, i \in Nodes :
          /\ edge_type[b][i][0] = 0
          /\ arg_s_next[b][i][0] \in Nodes \ {i}
    /\ \E b \in Batches, i \in Nodes :
          /\ edge_type[b][i][MaxEdges - 1] /= 0
          /\ arg_s_next[b][i][MaxEdges - 1] \in Nodes \ {i}
\* The sequence encoder alone: starts from an all-padded or an all-valid input.
InitGru ==
    /\ pc = "input"
    /\ writes = 0
    /\ InitAdjVars
    /\ \E m0 \in {0, 1} : InitGruVars(m0)
    /\ InitAggVars(FALSE, FALSE)
    /\ InitEncVars("float", {})

NextGru ==
    \/ \E b \in Batches, n \in Nodes, t \in Poses, mk \in {0, 1}, x \in {0, 1} :
          SetStep(b, n, t, mk, x)
    \/ CallGruEncode

SpecGru == InitGru /\ [][NextGru]_vars

\* Number of valid time steps of entity (b, n)
TrueLen(b, n) == Cardinality({t \in Poses : masks[b][n][t] = 0})

\* C2: an entity without valid time steps gets the zero vector; any other entity
\* gets, at its own position, the summarizer's final hidden state for its own
\* sequence and its own true length.
GruEncodePerEntity ==
    pc = "done" =>
        \A b \in Batches, n \in Nodes :
            encoding[b][n] =
                IF TrueLen(b, n) = 0 THEN ZeroVec
                ELSE GruFinal(node_encoder,
                              [t \in 1 .. MaxPoses |-> feat_embedding[b][n][t - 1]],
                              TrueLen(b, n))

\* The call returned on a batch whose first entity is fully padded and whose later
\* entity is valid, so that compacted position 1 is scattered to a later slot.
GruEncodeWitness ==
    /\ pc = "done"
    /\ \E b \in Batches, n1 \in Nodes, n2 \in Nodes :
          /\ n1 < n2
          /\ TrueLen(b, n1) = 0
          /\ TrueLen(b, n2) > 0
          /\ encoding[b][n2] /= ZeroVec

\* C3: the summarizer runs exactly when some entity is valid; on an all-padded
\* batch the result is the all-zero tensor of shape [batch, entity, hidden].
GruEmptyBatch ==
    pc = "done" =>
        /\ gru_calls = (IF \E b \in Batches, n \in Nodes : TrueLen(b, n) > 0 THEN 1 ELSE 0)
        /\ (\A b \in Batches, n \in Nodes : TrueLen(b, n) = 0) =>
              encoding = [b \in Batches |-> [n \in Nodes |-> ZeroVec]]

\* The call returned on a batch in which every time step of every entity is padded.
GruEmptyWitness ==
    /\ pc = "done"
    /\ \A b \in Batches, n \in Nodes : TrueLen(b, n) = 0
    /\ gru_calls = 0

\* C11: the encoding depends only on the features at valid time steps: rewriting
\* the feature of any one padded (mask = 1) time step, the mask kept as it is,
\* gives the same encoding as the call returned. Any two inputs that differ only
\* at padded steps are linked by such single rewrites.
PaddedStepsDoNotMatter ==
    pc = "done" =>
        \A b \in Batches, n \in Nodes, t \in Poses, x \in {0, 1} :
            masks[b][n][t] = 1 =>
                variable_size_gru_encode([feat_embedding EXCEPT ![b][n][t] = x],
                                         masks, node_encoder).encoding = encoding

\* The aggregator alone, on encodings the caller builds.
InitGoal ==
    /\ pc = "encoded"
    /\ writes = 0
    /\ InitAdjVars
    /\ InitGruVars(1)
    /\ \E pt \in BOOLEAN, tr \in BOOLEAN : InitAggVars(pt, tr)
    /\ InitEncVars("float", {})

\* Last elements of node_seq_gt: below the shifted space, inside it, and one above
GtVals == 0 .. (2 * MaxNodes)

NextGoal ==
    \/ \E b \in Batches, n \in Nodes, mk \in {0, 1} : SetNodeMask(b, n, mk)
    \/ \E b \in Batches, g \in GtVals : SetNodeSeqGt(b, g)
    \/ AggregatorForward

SpecGoal == InitGoal /\ [][NextGoal]_vars

\* C4: every example's goal distribution is exactly 0 at each masked node and sums
\* to 1 over the valid nodes.
GoalProbsMasked ==
    pc = "done" =>
        \A b \in Batches :
            LET p == outputs.goal_probs[b]
                valid == {n \in Nodes : encodings.combined_masks[b][n] = 0}
            IN  /\ ~p.nan
                /\ \A n \in Nodes \ valid : p.num[n] = 0
                /\ SumOver(p.num, valid) = p.den

\* C5: the pretraining path (no random draw) is taken exactly when pre_train is set
\* and the module is training; there every goal of an example is the last
\* ground-truth index minus max_nodes.
PretrainPathExact ==
    pc = "done" =>
        /\ rng_draws = (IF pre_train /\ training THEN 0 ELSE 1)
        /\ (pre_train /\ training) =>
              \A b \in Batches, sm \in Samples :
                  goals[b][sm] = encodings.node_seq_gt[b] - MaxNodes

\* A pretraining pass has returned its outputs.
PretrainWitness ==
    /\ pc = "done"
    /\ pre_train /\ training
    /\ rng_draws = 0
    /\ \E b \in Batches : goals[b][0] = encodings.node_seq_gt[b] - MaxNodes

\* A lane graph with a successor edge from each node to the next one in slot 0;
\* every other slot is a placeholder (destination 0, type 0).
ChainTable ==
    [b \in Batches |-> [i \in Nodes |-> [k \in EdgeSlots |->
        IF k = 0 /\ k < MaxEdges - 1 /\ i + 1 \in Nodes THEN i + 1 ELSE 0]]]

ChainTypes ==
    [b \in Batches |-> [i \in Nodes |-> [k \in EdgeSlots |->
        IF k = 0 /\ k < MaxEdges - 1 /\ i + 1 \in Nodes THEN 1 ELSE 0]]]

InitChain ==
    /\ s_next = ChainTable
    /\ edge_type = ChainTypes
    /\ arg_s_next = ChainTable
    /\ adj_mat = NoAdj

\* The whole pipeline at inference: the caller fills the inputs, the encoder runs,
\* then the aggregator runs on the encoder's dictionary.
Init ==
    /\ pc = "input"
    /\ writes = 0
    /\ InitChain
    /\ InitGruVars(1)
    /\ InitAggVars(FALSE, FALSE)
    /\ \E dtype \in {"bool", "float"} : InitEncVars(dtype, {"init_node", "node_seq_gt"})

Next ==
    \/ \E b \in Batches, n \in Nodes, t \in Poses : SetLaneStep(b, n, t)
    \/ \E b \in Batches, n \in Nodes, v \in Vehicles : SetVehicleNodeMask(b, n, v)
    \/ \E b \in Batches, n \in Nodes, v \in Peds : SetPedNodeMask(b, n, v)
    \/ EncoderForward
    \/ AggregatorForward

Spec == Init /\ [][Next]_vars

\* The pipeline under every combination of the pre_train flag, the training mode
\* and the optional input fields.
InitKeys ==
    /\ pc = "input"
    /\ writes = 0
    /\ InitChain
    /\ InitGruVars(1)
    /\ \E pt \in BOOLEAN, tr \in BOOLEAN : InitAggVars(pt, tr)
    /\ \E keys \in SUBSET {"init_node", "node_seq_gt"} : InitEncVars("float", keys)

NextKeys ==
    \/ \E b \in Batches, n \in Nodes, t \in Poses : SetLaneStep(b, n, t)
    \/ EncoderForward
    \/ AggregatorForward

SpecKeys == InitKeys /\ [][NextKeys]_vars

Returned == pc \in {"encoded", "done"}

\* C7: the returned node encoding is the zero vector at exactly the nodes that
\* combined_masks marks as having no valid pose.
CombinedZeroExactlyAtInvalid ==
    Returned =>
        \A b \in Batches, n \in Nodes :
            (encodings.combined[b][n] = ZeroVec) <=> (encodings.combined_masks[b][n] = 1)

\* C7, amended: combined_masks marks exactly the nodes without a valid pose, and at
\* each of them the encoding the sequence encoder returned (before the agent-node
\* fusion) is the zero vector.
LaneEncodingZeroAtInvalid ==
    Returned =>
        \A b \in Batches, n \in Nodes :
            /\ (encodings.combined_masks[b][n] = 1) <=>
                   (\A t \in Poses : inputs.lane_node_masks[b][n][t] = 1)
            /\ (encodings.combined_masks[b][n] = 1) => encoding[b][n] = ZeroVec

\* The encoder has returned for a batch with a node that has some but not all poses
\* valid and a node without a valid pose whose fused encoding is not zero.
LaneEncodingWitness ==
    /\ Returned
    /\ \E b \in Batches, n \in Nodes :
          /\ \E t \in Poses : inputs.lane_node_masks[b][n][t] = 0
          /\ \E t \in Poses : inputs.lane_node_masks[b][n][t] = 1
          /\ encoding[b][n] /= ZeroVec
    /\ \E b \in Batches, n \in Nodes :
          /\ encodings.combined_masks[b][n] = 1
          /\ encoding[b][n] = ZeroVec
          /\ encodings.combined[b][n] /= ZeroVec

\* C8: the forward pass leaves the caller's s_next as it was, and hands the same
\* contents on to the aggregator.
ForwardLeavesSNext ==
    pc \in {"encoded", "done", "failed"} =>
        /\ s_next = arg_s_next
        /\ Returned => encodings.s_next = arg_s_next

\* The mask entry of the agent behind key column j: vehicles first, then pedestrians
AgentMask(b, n, j) ==
    IF j < MaxVehicles THEN inputs.agent_node_masks.vehicles[b][n][j]
    ELSE inputs.agent_node_masks.pedestrians[b][n][j - MaxVehicles]

\* C10: an agent whose agent_node_masks entry at a node is 1 gets attention weight
\* exactly zero in that node's row (key column j and mask column j being the same
\* agent).
MaskedAgentsGetNoWeight ==
    Returned =>
        \A b \in Batches, n \in Nodes, j \in Nbrs :
            AgentMask(b, n, j) = 1 =>
                /\ att_weights[b][n][j] = 0
                /\ SumOver(att_weights[b][n], Nbrs) > 0

\* C12: every goal index the aggregator gathers with lies in [0, max_nodes) and
\* names a node that the validity mask of the same example marks valid, in the
\* sampling mode and in the pretraining mode.
GoalIndicesValid ==
    pc = "done" =>
        \A b \in Batches, sm \in Samples :
            /\ goals[b][sm] \in Nodes
            /\ encodings.combined_masks[b][goals[b][sm]] = 0
====
